---- MODULE Spec2Model ----
(***************************************************************************)
(* Model of src/server.py, the "dislike-coach" MCP server:                 *)
(*   _get_gemini_client, build_user_prompt, parse_and_normalize_output,    *)
(*   analyze_dislike and the __main__ entry point.                         *)
(*                                                                         *)
(* Texts are sequences of characters / atoms.  A value text (a message     *)
(* content, a JSON string) is a sequence of strings; a raw model reply is  *)
(* a sequence of token records, one of which may be the JSON text of a     *)
(* value.                                                                  *)
(***************************************************************************)
EXTENDS Integers, Sequences, FiniteSets, TLC

VARIABLES
    api_key,       \* os.environ["GEMINI_API_KEY"]: None, "" or a key
    server,        \* "loaded" (module imported) or "running" (mcp.run())
    pc,            \* position of the current analyze_dislike invocation
    messages,      \* argument of build_user_prompt / analyze_dislike
    user_comment,  \* argument
    task_hint,     \* argument
    user_prompt,   \* the compiled prompt (value of build_user_prompt)
    calls,         \* generate_content calls made by the current invocation
    raw_text,      \* text handed to parse_and_normalize_output
    result,        \* outcome of parse_and_normalize_output(raw_text)
    reparsed       \* outcome of parse_and_normalize_output(json.dumps(result))

vars == <<api_key, server, pc, messages, user_comment, task_hint,
          user_prompt, calls, raw_text, result, reparsed>>

(***************************************************************************)
(* Values exchanged as JSON / Python objects.  Finite floats are counted   *)
(* in tenths (f = 7 is 0.7); the non-finite floats and an int beyond the   *)
(* float range are kinds of their own.                                     *)
(***************************************************************************)
None == [k |-> "null"]
Bool(b) == [k |-> "bool", b |-> b]
PyInt(n) == [k |-> "int", n |-> n]
Raise(exc) == [k |-> "raise", exc |-> exc]
Float(f) == [k |-> "float", f |-> f]
NaN == [k |-> "nan"]
Infinity == [k |-> "inf"]
NegInfinity == [k |-> "ninf"]
BigInt == [k |-> "bigint"]
Str(s) == [k |-> "str", s |-> s]
List(items) == [k |-> "list", items |-> items]
Dict(fields) == [k |-> "dict", fields |-> fields]

(***************************************************************************)
(* Bounds                                                                  *)
(***************************************************************************)
MaxMsgs == 5
MaxRawLen == 4

(***************************************************************************)
(* str.strip                                                               *)
(***************************************************************************)
\* Characters str.strip() removes that appear in value texts.
Whitespace == {" ", "\n", "\f"}

RECURSIVE LStrip(_, _)
LStrip(s, chars) ==
    IF s # <<>> /\ Head(s) \in chars THEN LStrip(Tail(s), chars) ELSE s

RECURSIVE RStrip(_, _)
RStrip(s, chars) ==
    IF s # <<>> /\ s[Len(s)] \in chars
    THEN RStrip(SubSeq(s, 1, Len(s) - 1), chars) ELSE s

Strip(s, chars) == RStrip(LStrip(s, chars), chars)

(***************************************************************************)
(* build_user_prompt                                                       *)
(***************************************************************************)
WindowSize == 4

UnknownLastUser == <<"(unknown last user message)">>
NonePlaceholder == <<"(none)">>

\* str.upper on the role names that occur
Upper(role) ==
    CASE role = "user" -> "USER"
      [] role = "assistant" -> "ASSISTANT"
      [] role = "system" -> "SYSTEM"
      [] OTHER -> role

\* messages[-4:]
FirstWindowMutant(msgs) ==
    SubSeq(msgs, 1, IF Len(msgs) > WindowSize THEN WindowSize ELSE Len(msgs))

Truncated(msgs) ==
    IF Len(msgs) > WindowSize
    THEN SubSeq(msgs, Len(msgs) - WindowSize + 1, Len(msgs))
    ELSE msgs

\* m.get("role") / m.get("content"): None when the key is missing
GetRole(m) == m.role
GetContent(m) == m.content

\* f"{role}: {content}" of one message, <<>> when the message is skipped
ConvoLine(m) ==
    LET role == Upper(IF GetRole(m) = "none" THEN "user" ELSE GetRole(m))
        content == Strip(GetContent(m), Whitespace)
    IN IF content = <<>> THEN <<>> ELSE << <<role, ": ">> \o content >>

RECURSIVE ConvoLines(_)
ConvoLines(trunc) ==
    IF trunc = <<>> THEN <<>>
    ELSE ConvoLine(Head(trunc)) \o ConvoLines(Tail(trunc))

\* "\n".join(lines)
RECURSIVE Join(_)
Join(lines) ==
    IF lines = <<>> THEN <<>>
    ELSE IF Len(lines) = 1 THEN lines[1]
    ELSE lines[1] \o <<"\n">> \o Join(Tail(lines))

\* the reversed(truncated) scan for the last user message
RECURSIVE LastUserAnyContentMutant(_)
LastUserAnyContentMutant(trunc) ==
    IF trunc = <<>> THEN UnknownLastUser
    ELSE LET m == trunc[Len(trunc)]
         IN IF GetRole(m) = "user"
            THEN Strip(GetContent(m), Whitespace)
            ELSE LastUserAnyContentMutant(SubSeq(trunc, 1, Len(trunc) - 1))

RECURSIVE LastUser(_)
LastUser(trunc) ==
    IF trunc = <<>> THEN UnknownLastUser
    ELSE LET m == trunc[Len(trunc)]
         IN IF GetRole(m) = "user" /\ GetContent(m) # <<>>
            THEN Strip(GetContent(m), Whitespace)
            ELSE LastUser(SubSeq(trunc, 1, Len(trunc) - 1))

\* x or "(none)" for an Optional[str]
OrNone(x) == IF x = None \/ x = Str(<<>>) THEN NonePlaceholder ELSE x.s

\* The four slots of the fixed template; the final .strip() of the whole
\* document trims the right end of the last slot.
build_user_prompt(msgs, comment, hint) ==
    LET truncated == Truncated(msgs)
    IN [convo |-> Join(ConvoLines(truncated)),
        lines |-> ConvoLines(truncated),
        last_user |-> LastUser(truncated),
        user_comment |-> OrNone(comment),
        task_hint |-> RStrip(OrNone(hint), Whitespace)]

(***************************************************************************)
(* Python coercions used by parse_and_normalize_output                     *)
(***************************************************************************)
\* bool(v): the truth value behind "x or default" and "if x"
Truthy(v) ==
    CASE v.k = "null" -> FALSE
      [] v.k = "bool" -> v.b
      [] v.k = "int" -> v.n # 0
      [] v.k = "float" -> v.f # 0
      [] v.k = "str" -> v.s # <<>>
      [] v.k = "list" -> v.items # <<>>
      [] v.k = "dict" -> DOMAIN v.fields # {}
      [] OTHER -> TRUE

\* repr of a finite float counted in tenths, e.g. 7 -> "0.7", -2 -> "-0.2"
FloatRepr(f) ==
    IF f < 0
    THEN "-" \o ToString((-f) \div 10) \o "." \o ToString((-f) % 10)
    ELSE ToString(f \div 10) \o "." \o ToString(f % 10)

\* str(v)
PyStr(v) ==
    CASE v.k = "null" -> <<"None">>
      [] v.k = "bool" -> IF v.b THEN <<"True">> ELSE <<"False">>
      [] v.k = "int" -> <<ToString(v.n)>>
      [] v.k = "float" -> <<FloatRepr(v.f)>>
      [] v.k = "nan" -> <<"nan">>
      [] v.k = "inf" -> <<"inf">>
      [] v.k = "ninf" -> <<"-inf">>
      [] v.k = "bigint" -> <<"1000...0">>
      [] v.k = "str" -> v.s
      [] v.k = "list" -> <<"[...]">>
      [] v.k = "dict" -> <<"{...}">>

\* Range of the numeric literals a string can spell in this model.
LiteralRange == -30 .. 30

\* float(v): a float value, or the name of the exception raised
PyFloat(v) ==
    CASE v.k = "bool" -> Float(IF v.b THEN 10 ELSE 0)
      [] v.k = "int" -> Float(10 * v.n)
      [] v.k \in {"float", "nan", "inf", "ninf"} -> v
      [] v.k = "bigint" -> Raise("OverflowError")
      [] v.k = "str" ->
            LET t == Strip(v.s, Whitespace)
            IN IF Len(t) # 1 THEN Raise("ValueError")
               ELSE IF t[1] \in {"nan", "NaN"} THEN NaN
               ELSE IF t[1] \in {"inf", "Infinity"} THEN Infinity
               ELSE IF t[1] \in {"-inf", "-Infinity"} THEN NegInfinity
               ELSE IF \E f \in LiteralRange : FloatRepr(f) = t[1]
                    THEN Float(CHOOSE f \in LiteralRange : FloatRepr(f) = t[1])
               ELSE IF \E n \in LiteralRange : ToString(n) = t[1]
                    THEN Float(10 * (CHOOSE n \in LiteralRange : ToString(n) = t[1]))
               ELSE Raise("ValueError")
      [] OTHER -> Raise("TypeError")

\* conf_val < 0 and conf_val > 1 (every comparison with nan is false)
LessThanZero(c) == c.k = "ninf" \/ (c.k = "float" /\ c.f < 0)
GreaterThanOne(c) == c.k = "inf" \/ (c.k = "float" /\ c.f > 10)

(***************************************************************************)
(* Raw model text: a sequence of tokens.                                   *)
(*   Ch(c)       one whitespace character                                  *)
(*   Fence       three backticks                                           *)
(*   Word(w)     a run of letters (the tag json, or a word of prose)       *)
(*   JsonText(v) the JSON text that json.loads decodes to the value v      *)
(***************************************************************************)
Ch(c) == [t |-> "ch", c |-> c]
Fence == [t |-> "fence"]
Word(w) == [t |-> "word", w |-> w]
JsonText(v) == [t |-> "json", v |-> v]

\* what str.strip() removes, and the whitespace the JSON grammar allows
\* around a value (space, tab, line feed, carriage return)
WhitespaceTokens == {Ch(c) : c \in Whitespace}
JsonWhitespaceTokens == {Ch(" "), Ch("\n")}

\* str.lower on the words that occur
Lower(w) == IF w = "JSON" THEN "json" ELSE w

\* text.startswith("```")
StartsWithFence(text) == text # <<>> /\ Head(text) = Fence

\* text.lower().startswith("json")
StartsWithJsonTag(text) ==
    text # <<>> /\ Head(text).t = "word" /\ Lower(Head(text).w) = "json"

\* lines 129-136: trim, then the crude fence removal.  The tag is a
\* four-character word, so text[4:] drops exactly that token.
StripFences(raw) ==
    LET text == Strip(raw, WhitespaceTokens)
    IN IF StartsWithFence(text)
       THEN LET unfenced == Strip(text, {Fence})
            IN IF StartsWithJsonTag(unfenced)
               THEN Strip(Tail(unfenced), WhitespaceTokens)
               ELSE unfenced
       ELSE text

\* json.loads with brace scanning: decode the first JSON text found
RECURSIVE json_loads_BraceScanMutant(_)
json_loads_BraceScanMutant(text) ==
    IF text = <<>> THEN Raise("JSONDecodeError")
    ELSE IF Head(text).t = "json" THEN Head(text).v
    ELSE json_loads_BraceScanMutant(Tail(text))

\* json.loads(text): the decoded value, or Raise("JSONDecodeError")
json_loads(text) ==
    LET body == Strip(text, JsonWhitespaceTokens)
    IN IF Len(body) = 1 /\ body[1].t = "json"
       THEN body[1].v
       ELSE Raise("JSONDecodeError")

\* data.get(key, default) on a dict value
Get(data, key, default) ==
    IF key \in DOMAIN data.fields THEN data.fields[key] ELSE default

\* x or default
Or(x, default) == IF Truthy(x) THEN x ELSE default

(***************************************************************************)
(* parse_and_normalize_output                                              *)
(***************************************************************************)
Return(value) == [k |-> "return", value |-> value]

\* lines 142-150: the fixed "failed" result
FailedResult ==
    [summary |-> <<"Model output was not valid JSON.">>,
     root_causes |->
        << <<"The coach model did not follow the strict JSON-only instructions.">> >>,
     suggested_prompt |-> <<"Please help me debug why my last LLM answer was bad.">>,
     alternatives |-> <<>>,
     confidence |-> Float(3)]

DefaultSummary == <<"Unknown user goal.">>
HelpPrefix == <<"Help me with the following:", " ">>
GenericPrompt ==
    <<"Help me refine my question so I can get a better answer than last time.">>

\* [str(x) for x in items if str(x).strip()]
RECURSIVE NonBlankStrs(_)
NonBlankStrs(items) ==
    IF items = <<>> THEN <<>>
    ELSE (IF Strip(PyStr(Head(items)), Whitespace) # <<>>
          THEN <<PyStr(Head(items))>> ELSE <<>>)
         \o NonBlankStrs(Tail(items))

\* lines 159-170, for root_causes and for alternatives
NormalizeList(list_raw) ==
    IF list_raw.k = "list"
    THEN NonBlankStrs(list_raw.items)
    ELSE IF Truthy(list_raw) THEN <<PyStr(list_raw)>> ELSE <<>>

\* lines 173-180: conf_val, or the exception float() lets through
ClampConfidence(confidence_raw) ==
    LET coerced == PyFloat(confidence_raw)
        conf_val == IF coerced.k = "raise" /\ coerced.exc \in {"TypeError", "ValueError"}
                    THEN Float(5) ELSE coerced
    IN IF conf_val.k = "raise" THEN conf_val
       ELSE IF LessThanZero(conf_val) THEN Float(0)
       ELSE IF GreaterThanOne(conf_val) THEN Float(10)
       ELSE conf_val

\* lines 182-189, with the default summary taken for the prefix
FallbackPromptDefaultSummaryMutant(suggested_prompt, summary) ==
    IF suggested_prompt # <<>> THEN suggested_prompt
    ELSE HelpPrefix \o (IF summary # <<>> THEN summary ELSE DefaultSummary)

\* lines 182-189: the fallback for a missing suggested_prompt
FallbackPrompt(suggested_prompt, summary) ==
    IF suggested_prompt = <<>> /\ summary # <<>>
    THEN HelpPrefix \o summary
    ELSE IF suggested_prompt = <<>> THEN GenericPrompt
    ELSE suggested_prompt

\* lines 152-197, reached with the decoded value
NormalizeFields(data) ==
    IF data.k # "dict" THEN Raise("AttributeError")
    ELSE
    LET summary == Strip(PyStr(Or(Get(data, "summary", Str(<<>>)), Str(<<>>))), Whitespace)
        root_causes_raw == Or(Get(data, "root_causes", None), List(<<>>))
        alternatives_raw == Or(Get(data, "alternatives", None), List(<<>>))
        suggested_prompt ==
            Strip(PyStr(Or(Get(data, "suggested_prompt", Str(<<>>)), Str(<<>>))), Whitespace)
        confidence_raw == Get(data, "confidence", Float(5))
        conf_val == ClampConfidence(confidence_raw)
    IN IF conf_val.k = "raise" THEN conf_val
       ELSE Return([summary |-> IF summary # <<>> THEN summary ELSE DefaultSummary,
                    root_causes |-> NormalizeList(root_causes_raw),
                    suggested_prompt |-> FallbackPrompt(suggested_prompt, summary),
                    alternatives |-> NormalizeList(alternatives_raw),
                    confidence |-> conf_val])

parse_and_normalize_output(raw) ==
    LET data == json_loads(StripFences(raw))
    IN IF data.k = "raise" THEN Return(FailedResult)
       ELSE NormalizeFields(data)

\* json.dumps of a returned result
ResultValue(r) ==
    Dict([summary |-> Str(r.summary),
          root_causes |-> List([i \in 1 .. Len(r.root_causes) |-> Str(r.root_causes[i])]),
          suggested_prompt |-> Str(r.suggested_prompt),
          alternatives |-> List([i \in 1 .. Len(r.alternatives) |-> Str(r.alternatives[i])]),
          confidence |-> r.confidence])

json_dumps(r) == <<JsonText(ResultValue(r))>>

(***************************************************************************)
(* _get_gemini_client                                                      *)
(***************************************************************************)
\* raises only when the variable is missing, not when it is empty
get_gemini_client_MissingOnlyMutant(key) ==
    IF key = None THEN Raise("RuntimeError") ELSE Return(key)

\* lines 14-18: "if not api_key: raise RuntimeError"
get_gemini_client(key) ==
    IF ~Truthy(key) THEN Raise("RuntimeError") ELSE Return(key)

(***************************************************************************)
(* Inputs                                                                  *)
(***************************************************************************)
Unset == [k |-> "unset"]

Roles == {"user", "assistant", "none"}      \* "none": the role key is missing
Contents == {<<>>, <<" ">>, <<"a", " ">>, <<"b">>}
\* every content under the role user, an empty and a non-empty assistant
\* message, and a message without a role key
Message ==
    [role : {"user"}, content : Contents]
        \cup [role : Roles \ {"user"}, content : {<<"b">>}]
        \cup {[role |-> "assistant", content |-> <<>>]}
Conversations == UNION {[1 .. n -> Message] : n \in 0 .. MaxMsgs}
OptTexts == {None, Str(<<>>), Str(<<"c", " ">>)}
ApiKeys == {None, Str(<<>>), Str(<<"key">>)}

\* values a model may put in each field of its JSON object
Missing == [k |-> "missing"]
TextValues ==
    {Missing, None, Str(<<>>), Str(<<" ">>), Str(<<" ", "a", " ">>),
     PyInt(0), PyInt(7), Dict(<<>>)}
ListValues ==
    {Missing, None, List(<<>>), List(<<Str(<<"a">>), Str(<<" ">>), Str(<<>>)>>),
     List(<<PyInt(1), None>>), Str(<<"a">>), Str(<<" ">>), PyInt(0), PyInt(5)}
ConfidenceValues ==
    {Missing, None, Float(-2), Float(3), Float(17), PyInt(0), PyInt(2),
     NaN, Infinity, NegInfinity, BigInt, Bool(TRUE),
     Str(<<"0.7">>), Str(<<" ", "1.7">>), Str(<<"-0.2">>), Str(<<"abc">>),
     Str(<<"nan">>), List(<<>>), Dict(<<>>)}

Keys == {"summary", "root_causes", "suggested_prompt", "alternatives", "confidence"}

MkObject(s, r, p, a, c) ==
    LET all == [summary |-> s, root_causes |-> r, suggested_prompt |-> p,
                alternatives |-> a, confidence |-> c]
        present == {key \in Keys : all[key] # Missing}
    IN Dict([key \in present |-> all[key]])

Objects ==
    {MkObject(s, r, p, a, c) :
        s \in TextValues, r \in ListValues, p \in TextValues,
        a \in {Missing, List(<<Str(<<"x">>)>>), Str(<<" ">>)},
        c \in ConfidenceValues}

SampleObject ==
    MkObject(Str(<<"a">>), List(<<Str(<<"r">>)>>), Missing, Missing, Float(9))
SampleList == List(<<SampleObject>>)

RawAlphabet ==
    {Ch(" "), Ch("\f"), Fence, Word("json"), Word("Sure!"),
     JsonText(SampleObject), JsonText(SampleList)}
RawTexts == UNION {[1 .. n -> RawAlphabet] : n \in 0 .. MaxRawLen}

ServerConversations ==
    {<<>>,
     <<[role |-> "user", content |-> <<"a", " ">>]>>,
     <<[role |-> "user", content |-> <<"a", " ">>],
       [role |-> "assistant", content |-> <<"b">>]>>}
ServerReplies ==
    {None, Str(<<>>), Str(<<Word("Sure!")>>), Str(<<JsonText(SampleObject)>>),
     Str(<<Fence, Word("json"), Ch("\n"), JsonText(SampleObject), Ch("\n"), Fence>>),
     Str(<<Word("Sure!"), Ch(" "), JsonText(SampleObject)>>),
     Str(<<JsonText(SampleList)>>)}

(***************************************************************************)
(* build_user_prompt as an operation                                       *)
(***************************************************************************)
InitPrompt ==
    /\ messages \in Conversations
    /\ user_comment = None
    /\ task_hint = None
    /\ user_prompt = Unset
    /\ pc = "build"
    /\ api_key = None /\ server = "loaded" /\ calls = 0
    /\ raw_text = <<>> /\ result = Unset /\ reparsed = Unset

BuildUserPrompt ==
    /\ pc = "build"
    /\ user_prompt' = build_user_prompt(messages, user_comment, task_hint)
    /\ pc' = "built"
    /\ UNCHANGED <<api_key, server, messages, user_comment, task_hint, calls,
                   raw_text, result, reparsed>>

NextPrompt == BuildUserPrompt
SpecPrompt == InitPrompt /\ [][NextPrompt]_vars

(***************************************************************************)
(* parse_and_normalize_output as an operation                              *)
(***************************************************************************)
InitParse ==
    /\ raw_text \in RawTexts \cup {<<JsonText(o)>> : o \in Objects}
    /\ result = Unset /\ reparsed = Unset
    /\ pc = "parse"
    /\ api_key = None /\ server = "loaded" /\ calls = 0
    /\ messages = <<>> /\ user_comment = None /\ task_hint = None
    /\ user_prompt = Unset

Parse ==
    /\ pc = "parse"
    /\ result' = parse_and_normalize_output(raw_text)
    /\ pc' = "parsed"
    /\ UNCHANGED <<api_key, server, messages, user_comment, task_hint,
                   user_prompt, calls, raw_text, reparsed>>

\* the result fed back: parse_and_normalize_output(json.dumps(result))
Reparse ==
    /\ pc = "parsed"
    /\ result.k = "return"
    /\ reparsed' = parse_and_normalize_output(json_dumps(result.value))
    /\ pc' = "reparsed"
    /\ UNCHANGED <<api_key, server, messages, user_comment, task_hint,
                   user_prompt, calls, raw_text, result>>

NextParse == Parse \/ Reparse
SpecParse == InitParse /\ [][NextParse]_vars

(***************************************************************************)
(* The server: __main__ and the analyze_dislike tool                       *)
(***************************************************************************)
Init ==
    /\ api_key \in ApiKeys
    /\ server = "loaded"
    /\ pc = "idle"
    /\ messages = <<>> /\ user_comment = None /\ task_hint = None
    /\ user_prompt = Unset
    /\ calls = 0
    /\ raw_text = <<>> /\ result = Unset /\ reparsed = Unset

\* lines 248-250: mcp.run()
Run ==
    /\ server = "loaded"
    /\ server' = "running"
    /\ UNCHANGED <<api_key, pc, messages, user_comment, task_hint, user_prompt,
                   calls, raw_text, result, reparsed>>

\* lines 227-233: a tool invocation arrives; client, then compiled prompt
Invoke(m, c, h) ==
    /\ server = "running"
    /\ pc \in {"idle", "returned", "error"}
    /\ messages' = m /\ user_comment' = c /\ task_hint' = h
    /\ calls' = 0
    /\ raw_text' = <<>>
    /\ IF get_gemini_client(api_key).k = "raise"
       THEN /\ pc' = "error"
            /\ result' = get_gemini_client(api_key)
            /\ user_prompt' = Unset
       ELSE /\ pc' = "generate"
            /\ result' = Unset
            /\ user_prompt' = build_user_prompt(m, c, h)
    /\ UNCHANGED <<api_key, server, reparsed>>

\* lines 236-242: the one generate_content call; it answers with a text,
\* with no text, or fails
Generate(reply) ==
    /\ pc = "generate"
    /\ calls' = calls + 1
    /\ IF reply = Raise("TransportError")
       THEN /\ pc' = "error"
            /\ result' = reply
            /\ raw_text' = raw_text
       ELSE /\ pc' = "parse"
            /\ raw_text' = Or(reply, Str(<<>>)).s
            /\ result' = result
    /\ UNCHANGED <<api_key, server, messages, user_comment, task_hint,
                   user_prompt, reparsed>>

\* a second generate_content call when the first text does not decode
FinishWithRetryMutant ==
    /\ pc = "parse"
    /\ IF json_loads(StripFences(raw_text)).k = "raise" /\ calls < 2
       THEN pc' = "generate" /\ result' = result
       ELSE /\ result' = parse_and_normalize_output(raw_text)
            /\ pc' = IF result'.k = "return" THEN "returned" ELSE "error"
    /\ UNCHANGED <<api_key, server, messages, user_comment, task_hint,
                   user_prompt, calls, raw_text, reparsed>>

\* lines 244-245: normalise the text and return
Finish ==
    /\ pc = "parse"
    /\ result' = parse_and_normalize_output(raw_text)
    /\ pc' = IF result'.k = "return" THEN "returned" ELSE "error"
    /\ UNCHANGED <<api_key, server, messages, user_comment, task_hint,
                   user_prompt, calls, raw_text, reparsed>>

Next ==
    \/ Run
    \/ \E m \in ServerConversations, c \in OptTexts, h \in OptTexts : Invoke(m, c, h)
    \/ \E reply \in ServerReplies \cup {Raise("TransportError")} : Generate(reply)
    \/ Finish

Spec == Init /\ [][Next]_vars

(***************************************************************************)
(* Properties                                                              *)
(***************************************************************************)
Min(S) == CHOOSE x \in S : \A y \in S : x <= y
Max(S) == CHOOSE x \in S : \A y \in S : x >= y

\* a text without its leading and trailing whitespace, by position
Trimmed(s) ==
    LET solid == {i \in 1 .. Len(s) : s[i] \notin Whitespace}
    IN IF solid = {} THEN <<>> ELSE SubSeq(s, Min(solid), Max(solid))

\* indices of the trailing window of the conversation
Window ==
    (IF Len(messages) > WindowSize THEN Len(messages) - WindowSize + 1 ELSE 1)
        .. Len(messages)

ExtractionFails(raw) == json_loads(StripFences(raw)).k = "raise"

\* C1 (as stated): when the first reply fails JSON extraction exactly one
\* second generation call is made, otherwise none; never more than two.
C1_RetryOnExtractionFailure ==
    pc = "returned" =>
        calls = (IF ExtractionFails(raw_text) THEN 2 ELSE 1)

\* C1 (amended): an invocation that reaches the model makes exactly one
\* generation call whether or not the reply is extractable; a reply that
\* fails JSON extraction is answered with the fixed degraded result.
C1_SingleGenerationCall ==
    /\ calls <= 1
    /\ pc \in {"parse", "returned"} => calls = 1
    /\ (pc = "returned" /\ ExtractionFails(raw_text))
            => result = Return(FailedResult)

C1_Witness ==
    /\ pc = "returned" /\ ExtractionFails(raw_text)
    /\ calls = 1 /\ result = Return(FailedResult)

\* C2: for every raw text, also one that decodes to a JSON value other
\* than an object, the function returns a result with all five fields and
\* never ends in an error.
C2_ReturnsFullResultOrFailedResult ==
    pc = "parsed" =>
        /\ result.k = "return"
        /\ DOMAIN result.value = Keys
        /\ result.value.confidence.k \in {"float", "nan", "inf", "ninf"}

\* C3: every returned result has 0.0 <= confidence <= 1.0.
C3_ConfidenceInUnitInterval ==
    (pc = "parsed" /\ result.k = "return") =>
        /\ result.value.confidence.k = "float"
        /\ result.value.confidence.f >= 0
        /\ result.value.confidence.f <= 10

\* the raw text is one JSON object with only words of prose and whitespace
\* around it, and at least one word
ProseAroundObject(raw) ==
    /\ \E i \in 1 .. Len(raw) :
          /\ raw[i].t = "json" /\ raw[i].v.k = "dict"
          /\ \A j \in (1 .. Len(raw)) \ {i} :
                raw[j] \in WhitespaceTokens \cup {Word("Sure!")}
    /\ \E j \in 1 .. Len(raw) : raw[j] = Word("Sure!")

TheObject(raw) ==
    raw[CHOOSE i \in 1 .. Len(raw) : raw[i].t = "json"]

\* C4 (as stated): a JSON object surrounded by prose yields the same result
\* as the object alone.
C4_ProseIsScannedAway ==
    (pc = "parsed" /\ ProseAroundObject(raw_text)) =>
        result = parse_and_normalize_output(<<TheObject(raw_text)>>)

\* C4 (amended): a JSON object with words of prose before or after it is
\* not brace-scanned; the direct parse fails and the fixed degraded result
\* is returned.
C4_ProseYieldsFailedResult ==
    (pc = "parsed" /\ ProseAroundObject(raw_text)) =>
        result = Return(FailedResult)

C4_Witness ==
    /\ pc = "parsed"
    /\ raw_text = <<Word("Sure!"), Ch(" "), JsonText(SampleObject), Word("Sure!")>>
    /\ result = Return(FailedResult)

NotWhitespace(tok) == tok \notin WhitespaceTokens

\* the raw text is one JSON object inside a pair of fences, the tag json
\* (if any) directly after the opening fence, whitespace anywhere else
FencedObject(raw) ==
    \E i \in 1 .. Len(raw) :
        LET pre == SelectSeq(SubSeq(raw, 1, i - 1), NotWhitespace)
            post == SelectSeq(SubSeq(raw, i + 1, Len(raw)), NotWhitespace)
            open == CHOOSE j \in 1 .. Len(raw) : raw[j] = Fence
        IN /\ raw[i].t = "json" /\ raw[i].v.k = "dict"
           /\ post = <<Fence>>
           /\ \/ pre = <<Fence>>
              \/ pre = <<Fence, Word("json")>> /\ raw[open + 1] = Word("json")

\* C5: a JSON object wrapped in a fence, with or without the tag json and
\* with surrounding whitespace, yields the same result as the object alone.
C5_FencedSameAsUnwrapped ==
    (pc = "parsed" /\ FencedObject(raw_text)) =>
        result = parse_and_normalize_output(<<TheObject(raw_text)>>)

\* indices of the window's user messages
UserIndices == {k \in Window : messages[k].role = "user"}
NonEmptyUserIndices == {k \in UserIndices : messages[k].content # <<>>}

\* C6 (as stated): the last-user text is the content of the last message of
\* the window whose role is user, whatever its content, and the sentinel
\* exactly when the window has no user message.
C6_LastUserIgnoresContent ==
    pc = "built" =>
        IF UserIndices = {}
        THEN user_prompt.last_user = UnknownLastUser
        ELSE user_prompt.last_user \in
                {messages[Max(UserIndices)].content,
                 Trimmed(messages[Max(UserIndices)].content)}

\* C6 (amended): the last-user text is the trimmed content of the last
\* message of the window whose role is user and whose content is not the
\* empty string, and the sentinel exactly when the window has no such
\* message; a whitespace-only content is selected and yields an empty text.
C6_LastUserWithContent ==
    pc = "built" =>
        IF NonEmptyUserIndices = {}
        THEN user_prompt.last_user = UnknownLastUser
        ELSE /\ user_prompt.last_user =
                    Trimmed(messages[Max(NonEmptyUserIndices)].content)
             /\ user_prompt.last_user # UnknownLastUser

C6_Witness ==
    /\ pc = "built"
    /\ Len(messages) >= 2
    /\ messages[Len(messages)] = [role |-> "user", content |-> <<>>]
    /\ messages[Len(messages) - 1] = [role |-> "user", content |-> <<"a", " ">>]
    /\ user_prompt.last_user = <<"a">>

\* the window's messages that are rendered, oldest first
Rendered == {k \in Window : Trimmed(messages[k].content) # <<>>}
NthRendered(i) ==
    CHOOSE k \in Rendered : Cardinality({j \in Rendered : j <= k}) = i
RoleLabel(m) ==
    IF m.role = "assistant" THEN "ASSISTANT" ELSE "USER"

\* C7: the transcript has one "ROLE: content" line per non-empty message of
\* the trailing window (the trailing 4 messages of a longer conversation,
\* all messages otherwise), in chronological order, and nothing older than
\* the window is rendered or selected as the last-user message.
C7_TranscriptIsTrailingWindow ==
    pc = "built" =>
        /\ Len(user_prompt.lines) = Cardinality(Rendered)
        /\ \A i \in 1 .. Len(user_prompt.lines) :
              user_prompt.lines[i] =
                  <<RoleLabel(messages[NthRendered(i)]), ": ">>
                      \o Trimmed(messages[NthRendered(i)].content)
        /\ Cardinality({i \in 1 .. Len(user_prompt.convo) :
                            user_prompt.convo[i] = "\n"})
              = (IF Rendered = {} THEN 0 ELSE Cardinality(Rendered) - 1)
        /\ \/ user_prompt.last_user = UnknownLastUser
           \/ \E k \in Window :
                 /\ messages[k].role = "user"
                 /\ user_prompt.last_user = Trimmed(messages[k].content)

C7_Witness ==
    /\ pc = "built"
    /\ Len(messages) > WindowSize
    /\ messages[1] = [role |-> "user", content |-> <<"b">>]
    /\ \A k \in Window : messages[k].content = <<"a", " ">>
    /\ Len(user_prompt.lines) = WindowSize
    /\ user_prompt.last_user # <<"b">>

\* C8 (as stated): without the credential the server never reaches the
\* state where it is running.
C8_NoRunningServerWithoutKey ==
    server = "running" => Truthy(api_key)

\* C8 (amended): without the credential (absent or empty) the server still
\* starts; every analyze_dislike invocation then raises RuntimeError before
\* the prompt is compiled and before any generation call.
C8_MissingKeyFailsEachInvocation ==
    ~Truthy(api_key) =>
        /\ calls = 0
        /\ user_prompt = Unset
        /\ pc \in {"idle", "error"}
        /\ pc = "error" => result = Raise("RuntimeError")

C8_Witness ==
    /\ ~Truthy(api_key)
    /\ server = "running"
    /\ pc = "error"
    /\ result = Raise("RuntimeError")

\* the text a model supplied for a key: empty when the key is missing or
\* its value is falsy, else its text without surrounding whitespace
Supplied(data, key) ==
    IF key \notin DOMAIN data.fields THEN <<>>
    ELSE LET v == data.fields[key]
         IN IF v.k = "str" THEN Trimmed(v.s)
            ELSE IF Truthy(v) THEN PyStr(v) ELSE <<>>

Decoded == json_loads(StripFences(raw_text))

\* C9: suggested_prompt is the supplied one when non-empty, else the help
\* prefix followed by the supplied summary when that is non-empty, else the
\* generic fallback; neither suggested_prompt nor summary is ever empty and
\* the default summary is never embedded in suggested_prompt.
C9_SuggestedPromptFallback ==
    (pc = "parsed" /\ Decoded.k = "dict" /\ result.k = "return") =>
        LET sp == Supplied(Decoded, "suggested_prompt")
            sm == Supplied(Decoded, "summary")
            r == result.value
        IN /\ r.suggested_prompt =
                (IF sp # <<>> THEN sp
                 ELSE IF sm # <<>> THEN HelpPrefix \o sm
                 ELSE GenericPrompt)
           /\ r.suggested_prompt # <<>>
           /\ r.summary # <<>>
           /\ r.summary = (IF sm # <<>> THEN sm ELSE DefaultSummary)
           /\ \A i \in 1 .. Len(r.suggested_prompt) :
                 r.suggested_prompt[i] # DefaultSummary[1]

C9_Witness ==
    /\ pc = "parsed" /\ Decoded.k = "dict" /\ result.k = "return"
    /\ Supplied(Decoded, "suggested_prompt") = <<>>
    /\ "suggested_prompt" \in DOMAIN Decoded.fields
    /\ Supplied(Decoded, "summary") = <<"a">>
    /\ result.value.suggested_prompt = HelpPrefix \o <<"a">>

\* C10: applying the function to the JSON serialisation of its own result
\* returns that result again.
C10_Idempotent ==
    pc = "reparsed" => reparsed = result

====
